---- MODULE Spec2Model ----
(***************************************************************************)
(* Model of liblight/lights.c: the lights HAL of the Samsung Epic 4G.      *)
(* Threads of the lights service call the five set_light_* handlers; the   *)
(* handlers write sysfs control files under the mutex g_lock.  Every       *)
(* write(2)/open(2) is one step whose outcome (success, open failure,      *)
(* write failure) is chosen by the environment.                            *)
(***************************************************************************)
EXTENDS Integers, Sequences, FiniteSets, TLC

(* ---------------------------------------------------------------- bounds *)
MaxCalls == 2
MaxOnMS == 2
MaxOffMS == 1

(* The threads of the lights service that call into the module.            *)
Threads == {1, 2}

(* ------------------------------------------------------------- constants *)
LIGHT_FLASH_NONE == 0
LIGHT_FLASH_TIMED == 1
LIGHT_FLASH_HARDWARE == 2

RED_LED_DIR == "/sys/class/leds/red"
BLUE_LED_DIR == "/sys/class/leds/blue"
LCD_FILE == "/sys/class/backlight/s5p_bl/brightness"
KEYBOARD_FILE == "/sys/devices/platform/s3c-keypad/brightness"
BUTTONS_FILE == "/sys/class/sec/t_key/brightness"
BRIGHTNESS_FILE == "/sys/devices/virtual/sec/t_key/touchleds_voltage"

LedDirs == {RED_LED_DIR, BLUE_LED_DIR}
LedFiles == {"trigger", "brightness", "blink_count", "delay_on", "delay_off"}

(* snprintf(path, sizeof(path), "%s/%s", dir, file) *)
DfPath(dir, file) == dir \o "/" \o file

Paths == {DfPath(d, f) : d \in LedDirs, f \in LedFiles}
           \cup {LCD_FILE, KEYBOARD_FILE, BUTTONS_FILE, BRIGHTNESS_FILE}

(* The directory a path of the two LEDs lies in, "" for the other files.   *)
DirOf(path) ==
  IF \E f \in LedFiles : path = DfPath(RED_LED_DIR, f) THEN RED_LED_DIR
  ELSE IF \E f \in LedFiles : path = DfPath(BLUE_LED_DIR, f) THEN BLUE_LED_DIR
  ELSE ""

(* --------------------------------------------------------------- inputs  *)
(* struct light_state_t: the colours exercise every combination of the red *)
(* and the blue byte, a green-only colour, a colour whose luma is 0 though *)
(* it is not black, and one with only the top byte set.                    *)
Colors == {0, 65536, 255, 16711935, 65280, 16777216}
FlashModes == {LIGHT_FLASH_NONE, LIGHT_FLASH_TIMED, LIGHT_FLASH_HARDWARE}
LightStates == [color : Colors, flashMode : FlashModes,
                flashOnMS : 0..MaxOnMS, flashOffMS : 0..MaxOffMS]

(* The light states and colours of the runs with two threads: LEDs off or *)
(* both blinking, lights off or on.                                        *)
SomeColors == {0, 16711935}
SomeStates == {s \in LightStates : /\ s.color \in SomeColors
                                   /\ s.flashMode # LIGHT_FLASH_HARDWARE
                                   /\ s.flashOnMS = MaxOnMS
                                   /\ s.flashOffMS = MaxOffMS}

(* What the device does with one write_int / write_str: all goes well, the *)
(* open fails (errno ENOENT = 2), or the write fails (errno EIO = 5).      *)
Outcomes == {[kind |-> "ok", errno |-> 0], [kind |-> "open", errno |-> 2],
             [kind |-> "write", errno |-> 5]}

(* -------------------------------------------------------- pure functions *)
Shr(x, n) == x \div (2 ^ n)
Byte(x) == x % 256
Low24(x) == x % 16777216

RECURSIVE FormatNat(_)
FormatNat(n) ==
  IF n < 10 THEN SubSeq("0123456789", n + 1, n + 1)
  ELSE FormatNat(n \div 10) \o SubSeq("0123456789", (n % 10) + 1, (n % 10) + 1)

(* sprintf(buffer, "%d\n", value) *)
FormatInt(value) ==
  (IF value < 0 THEN "-" \o FormatNat(-value) ELSE FormatNat(value)) \o "\n"

rgb_to_brightness_unmasked(state) ==
  Shr(77 * Shr(state.color, 16) + 150 * Byte(Shr(state.color, 8))
        + 29 * Byte(state.color), 8)

rgb_to_brightness(state) ==
  LET color == Low24(state.color)
  IN Shr(77 * Byte(Shr(color, 16)) + 150 * Byte(Shr(color, 8))
           + 29 * Byte(color), 8)

led_state(enabled, delay_on, delay_off) ==
  [enabled |-> enabled, delay_on |-> delay_on, delay_off |-> delay_off]

comp_led_states_any_mode(state) ==
  << led_state(IF Byte(Shr(state.color, 16)) # 0 THEN 1 ELSE 0,
               state.flashOnMS, state.flashOffMS),
     led_state(IF Byte(state.color) # 0 THEN 1 ELSE 0,
               state.flashOnMS, state.flashOffMS) >>

comp_led_states_not_none(state) ==
  LET delay_on == IF state.flashMode # LIGHT_FLASH_NONE
                  THEN state.flashOnMS ELSE 0
      delay_off == IF state.flashMode # LIGHT_FLASH_NONE
                   THEN state.flashOffMS ELSE 0
  IN << led_state(IF Byte(Shr(state.color, 16)) # 0 THEN 1 ELSE 0,
                  delay_on, delay_off),
        led_state(IF Byte(state.color) # 0 THEN 1 ELSE 0, delay_on, delay_off) >>

comp_led_states_unmasked(state) ==
  LET delay_on == IF state.flashMode = LIGHT_FLASH_TIMED
                  THEN state.flashOnMS ELSE 0
      delay_off == IF state.flashMode = LIGHT_FLASH_TIMED
                   THEN state.flashOffMS ELSE 0
  IN << led_state(IF Shr(state.color, 16) # 0 THEN 1 ELSE 0,
                  delay_on, delay_off),
        led_state(IF Byte(state.color) # 0 THEN 1 ELSE 0, delay_on, delay_off) >>

(* comp_led_states: the pair <<red, blue>> it stores.                       *)
comp_led_states(state) ==
  LET color == state.color
      delay_on == IF state.flashMode = LIGHT_FLASH_TIMED
                  THEN state.flashOnMS ELSE 0
      delay_off == IF state.flashMode = LIGHT_FLASH_TIMED
                   THEN state.flashOffMS ELSE 0
  IN << led_state(IF Byte(Shr(color, 16)) # 0 THEN 1 ELSE 0, delay_on, delay_off),
        led_state(IF Byte(color) # 0 THEN 1 ELSE 0, delay_on, delay_off) >>

(* set_led, lines 148-154: the record the LED shows, or NoState (NULL).     *)
NoState == [enabled |-> 0, delay_on |-> -1, delay_off |-> -1]
set_led_state_battery_first(battery, notifications) ==
  IF battery.enabled # 0 THEN battery
  ELSE IF notifications.enabled # 0 THEN notifications
  ELSE NoState

set_led_state_no_fallback(battery, notifications) ==
  IF notifications.enabled # 0 THEN notifications ELSE NoState

set_led_state(battery, notifications) ==
  IF notifications.enabled # 0 THEN notifications
  ELSE IF battery.enabled # 0 THEN battery
  ELSE NoState

WrStr(file, str) == [fn |-> "write_str", file |-> file, text |-> str]
WrInt(file, value) == [fn |-> "write_int", file |-> file, text |-> FormatInt(value)]

set_led_writes_count_last(battery, notifications) ==
  LET state == set_led_state(battery, notifications)
  IN IF state # NoState
     THEN IF state.delay_on > 0 /\ state.delay_off > 0
          THEN << WrStr("trigger", "notification"),
                  WrStr("brightness", "255"),
                  WrInt("delay_on", state.delay_on),
                  WrInt("delay_off", state.delay_off),
                  WrStr("blink_count", "1") >>
          ELSE << WrStr("trigger", "none"), WrStr("brightness", "255") >>
     ELSE << WrStr("trigger", "none"), WrStr("brightness", "0") >>

(* set_led, lines 156-175: the writes it issues, in order, as long as none *)
(* fails.                                                                  *)
set_led_writes(battery, notifications) ==
  LET state == set_led_state(battery, notifications)
  IN IF state # NoState
     THEN IF state.delay_on > 0 /\ state.delay_off > 0
          THEN << WrStr("trigger", "notification"),
                  WrStr("brightness", "255"),
                  WrStr("blink_count", "1"),
                  WrInt("delay_on", state.delay_on),
                  WrInt("delay_off", state.delay_off) >>
          ELSE << WrStr("trigger", "none"), WrStr("brightness", "255") >>
     ELSE << WrStr("trigger", "none"), WrStr("brightness", "0") >>

key_led_control_zero_off(state) == IF Low24(state.color) # 0 THEN 1 ELSE 0

(* set_light_keyboard, line 237 *)
key_led_control(state) == IF Low24(state.color) # 0 THEN 1 ELSE 2
(* set_light_buttons, line 256 *)
touch_led_control(state) == IF Low24(state.color) # 0 THEN 1 ELSE 0

(* ----------------------------------------------------------------- state *)
VARIABLES
  g_lock,              \* 0 when free, else the thread holding it
  battery_red, battery_blue, notifications_red, notifications_blue,
  warned,              \* already_warned of write_int and of write_str
  dev,                 \* path -> the text last written with success
  pc,                  \* thread -> where it stands
  call,                \* thread -> the call in progress, or NoCall
  frame,               \* thread -> set_led's frame: dir, writes, next index
  res,                 \* thread -> the handler's res / err
  ncalls,              \* calls issued so far
  wlog,                \* device writes attempted, in order (see Return)
  open_failed,         \* paths whose open has failed at least once
  open_logged,         \* path -> number of ALOGE lines about it
  arg,                 \* the light state a function is applied to alone
  out                  \* what that function gave

store == << battery_red, battery_blue, notifications_red, notifications_blue >>
vars == << g_lock, battery_red, battery_blue, notifications_red,
           notifications_blue, warned, dev, pc, call, frame, res, ncalls,
           wlog, open_failed, open_logged, arg, out >>

NoState_t == [color |-> 0, flashMode |-> 0, flashOnMS |-> 0, flashOffMS |-> 0]
NoCall == [id |-> 0, handler |-> "none", state |-> NoState_t]
NoFrame == [dir |-> "", writes |-> << >>, idx |-> 0]
NoRet == [fn |-> "none", red |-> led_state(0, 0, 0), blue |-> led_state(0, 0, 0),
          brightness |-> 0]

(* The statics of the module as the loader leaves them.                    *)
InitLights ==
  /\ g_lock = 0
  /\ battery_red = led_state(0, 0, 0)
  /\ battery_blue = led_state(0, 0, 0)
  /\ notifications_red = led_state(0, 0, 0)
  /\ notifications_blue = led_state(0, 0, 0)
  /\ warned = [fn \in {"write_int", "write_str"} |-> 0]
  /\ dev = [p \in Paths |-> ""]
  /\ pc = [t \in Threads |-> "idle"]
  /\ call = [t \in Threads |-> NoCall]
  /\ frame = [t \in Threads |-> NoFrame]
  /\ res = [t \in Threads |-> 0]
  /\ ncalls = 0
  /\ wlog = << >>
  /\ open_failed = {}
  /\ open_logged = [p \in Paths |-> 0]

Init == InitLights /\ arg = NoState_t /\ out = NoRet

(* ------------------------------------------------------- write_int/_str  *)
write_result_errno(o) == IF o.kind = "ok" THEN 0 ELSE o.errno

(* The value write_int / write_str returns for an outcome.                 *)
write_result(o) == IF o.kind = "ok" THEN 0 ELSE -o.errno

(* One call of write_int or write_str (fn) by thread t on path with text,  *)
(* with outcome o: open, write, close, the once-only ALOGE.                *)
write_file(t, fn, path, text, o) ==
  /\ dev' = IF o.kind = "ok" THEN [dev EXCEPT ![path] = text] ELSE dev
  /\ warned' = IF o.kind = "open" THEN [warned EXCEPT ![fn] = 1] ELSE warned
  /\ open_logged' = IF o.kind = "open" /\ warned[fn] = 0
                    THEN [open_logged EXCEPT ![path] = @ + 1]
                    ELSE open_logged
  /\ open_failed' = IF o.kind = "open" THEN open_failed \cup {path}
                    ELSE open_failed
  /\ wlog' = Append(wlog, [call |-> call[t].id, handler |-> call[t].handler,
                           thread |-> t, path |-> path, text |-> text,
                           kind |-> o.kind, errno |-> o.errno])

(* ------------------------------------------------------------ dispatcher *)
Entry(handler) ==
  CASE handler = "battery" -> "battery_lock"
    [] handler = "notifications" -> "notifications_lock"
    [] handler = "backlight" -> "backlight_lock"
    [] handler = "keyboard" -> "keyboard_lock"
    [] handler = "buttons" -> "keyboard_lock"

(* dev->set_light(dev, state) called by a thread of the lights service.    *)
(* Backlight, keyboard and buttons read nothing but state->color.  What    *)
(* battery and notifications are passed is first used under the lock, by   *)
(* comp_led_states, and is drawn there.                                    *)
CallHandler(t, handler, state) ==
  /\ pc[t] = "idle"
  /\ ncalls < MaxCalls
  /\ ncalls' = ncalls + 1
  /\ call' = [call EXCEPT ![t] = [id |-> ncalls + 1, handler |-> handler,
                                  state |-> state]]
  /\ pc' = [pc EXCEPT ![t] = Entry(handler)]
  /\ res' = [res EXCEPT ![t] = 0]
  /\ UNCHANGED << g_lock, store, warned, dev, frame, wlog, open_failed,
                  open_logged >>

Call(t, colors) ==
  \/ \E handler \in {"battery", "notifications"} :
        CallHandler(t, handler, NoState_t)
  \/ \E handler \in {"backlight", "keyboard", "buttons"}, color \in colors :
        CallHandler(t, handler, [NoState_t EXCEPT !.color = color])

(* pthread_mutex_lock(&g_lock): blocks while another thread holds it.      *)
mutex_lock(t) == g_lock = 0 /\ g_lock' = t

(* pthread_mutex_unlock(&g_lock) *)
(* Unlocking a mutex the caller does not hold (possible only once          *)
(* open_lights has re-initialised it) is undefined: it is released or not. *)
mutex_unlock(t) == g_lock' \in (IF g_lock = t THEN {0} ELSE {0, g_lock})

(* ------------------------------------------------ battery, notifications *)
EnterSetLed(dir, battery, notifications) ==
  [dir |-> dir, writes |-> set_led_writes(battery, notifications), idx |-> 1]

set_light_battery_lock_clears_notifications(t, state) ==
  /\ pc[t] = "battery_lock"
  /\ mutex_lock(t)
  /\ LET s == comp_led_states(state)
     IN /\ battery_red' = s[1]
        /\ battery_blue' = s[2]
        /\ notifications_red' = led_state(0, 0, 0)
        /\ notifications_blue' = led_state(0, 0, 0)
        /\ frame' = [frame EXCEPT ![t] =
                       EnterSetLed(RED_LED_DIR, s[1], led_state(0, 0, 0))]
  /\ pc' = [pc EXCEPT ![t] = "set_led"]
  /\ UNCHANGED << warned, dev, call, res, ncalls, wlog, open_failed,
                  open_logged >>

(* lines 188-192: lock, comp_led_states, entry of set_led(RED_LED_DIR).    *)
set_light_battery_lock(t, state) ==
  /\ pc[t] = "battery_lock"
  /\ mutex_lock(t)
  /\ LET s == comp_led_states(state)
     IN /\ battery_red' = s[1]
        /\ battery_blue' = s[2]
        /\ frame' = [frame EXCEPT ![t] =
                       EnterSetLed(RED_LED_DIR, s[1], notifications_red)]
  /\ pc' = [pc EXCEPT ![t] = "set_led"]
  /\ UNCHANGED << notifications_red, notifications_blue, warned, dev, call,
                  res, ncalls, wlog, open_failed, open_logged >>

(* lines 210-212: comp_led_states, entry of set_led(RED_LED_DIR).          *)
notifications_enter(t, state) ==
  /\ pc[t] = "notifications_lock"
  /\ LET s == comp_led_states(state)
     IN /\ notifications_red' = s[1]
        /\ notifications_blue' = s[2]
        /\ frame' = [frame EXCEPT ![t] =
                       EnterSetLed(RED_LED_DIR, battery_red, s[1])]
  /\ pc' = [pc EXCEPT ![t] = "set_led"]
  /\ UNCHANGED << battery_red, battery_blue, warned, dev, call,
                  res, ncalls, wlog, open_failed, open_logged >>

set_light_notifications_nolock(t, state) ==
  g_lock' = g_lock /\ notifications_enter(t, state)

(* lines 208-212 *)
set_light_notifications_lock(t, state) ==
  mutex_lock(t) /\ notifications_enter(t, state)

AfterLedWrite_both_leds(t, r) ==
  LET f == frame[t]
      returns == r < 0 \/ f.idx = Len(f.writes)
      ret == IF r < 0 THEN r ELSE 0
  IN IF ~returns
     THEN /\ frame' = [frame EXCEPT ![t].idx = f.idx + 1]
          /\ UNCHANGED << pc, res >>
     ELSE IF f.dir = RED_LED_DIR
     THEN /\ frame' = [frame EXCEPT ![t] =
                         EnterSetLed(BLUE_LED_DIR, battery_blue, notifications_blue)]
          /\ res' = [res EXCEPT ![t] = ret]
          /\ UNCHANGED pc
     ELSE /\ frame' = [frame EXCEPT ![t] = NoFrame]
          /\ res' = [res EXCEPT ![t] = IF ret < 0 THEN ret ELSE res[t]]
          /\ pc' = [pc EXCEPT ![t] = "leds_unlock"]

(* What follows a write of set_led that returned r: the next write, the    *)
(* return of set_led and with it either set_led(BLUE_LED_DIR) or the       *)
(* unlock (lines 163-177 and 192-193).                                     *)
AfterLedWrite(t, r) ==
  LET f == frame[t]
      returns == r < 0 \/ f.idx = Len(f.writes)
      ret == IF r < 0 THEN r ELSE 0
  IN IF ~returns
     THEN /\ frame' = [frame EXCEPT ![t].idx = f.idx + 1]
          /\ UNCHANGED << pc, res >>
     ELSE IF f.dir = RED_LED_DIR /\ ret >= 0
     THEN /\ frame' = [frame EXCEPT ![t] =
                         EnterSetLed(BLUE_LED_DIR, battery_blue, notifications_blue)]
          /\ res' = [res EXCEPT ![t] = ret]
          /\ UNCHANGED pc
     ELSE /\ frame' = [frame EXCEPT ![t] = NoFrame]
          /\ res' = [res EXCEPT ![t] = ret]
          /\ pc' = [pc EXCEPT ![t] = "leds_unlock"]

(* One write_df_str / write_df_int of set_led.                             *)
set_led_write(t, o) ==
  /\ pc[t] = "set_led"
  /\ LET w == frame[t].writes[frame[t].idx]
     IN write_file(t, w.fn, DfPath(frame[t].dir, w.file), w.text, o)
  /\ AfterLedWrite(t, write_result(o))
  /\ UNCHANGED << g_lock, store, call, ncalls >>

set_light_leds_unlock_if_ok(t) ==
  /\ pc[t] = "leds_unlock"
  /\ IF res[t] < 0 THEN g_lock' = g_lock ELSE mutex_unlock(t)
  /\ pc' = [pc EXCEPT ![t] = "done"]
  /\ UNCHANGED << store, warned, dev, call, frame, res, ncalls, wlog,
                  open_failed, open_logged >>

set_light_leds_unlock_restore_on_error(t) ==
  /\ pc[t] = "leds_unlock"
  /\ mutex_unlock(t)
  /\ pc' = [pc EXCEPT ![t] = "done"]
  /\ IF res[t] < 0 /\ call[t].handler = "battery"
     THEN /\ battery_red' = led_state(0, 0, 0)
          /\ battery_blue' = led_state(0, 0, 0)
          /\ UNCHANGED << notifications_red, notifications_blue >>
     ELSE UNCHANGED store
  /\ UNCHANGED << warned, dev, call, frame, res, ncalls, wlog,
                  open_failed, open_logged >>

(* lines 195 and 215 *)
set_light_leds_unlock(t) ==
  /\ pc[t] = "leds_unlock"
  /\ mutex_unlock(t)
  /\ pc' = [pc EXCEPT ![t] = "done"]
  /\ UNCHANGED << store, warned, dev, call, frame, res, ncalls, wlog,
                  open_failed, open_logged >>

(* ------------------------------------------------------------- backlight *)
(* A critical section of one write_int: lock, write, unlock.               *)
section_lock(t, at, to) ==
  /\ pc[t] = at
  /\ mutex_lock(t)
  /\ pc' = [pc EXCEPT ![t] = to]
  /\ UNCHANGED << store, warned, dev, call, frame, res, ncalls, wlog,
                  open_failed, open_logged >>

(* line 226 *)
set_light_backlight_lock(t) == section_lock(t, "backlight_lock", "backlight_write")

(* line 227: err = write_int(LCD_FILE, brightness) *)
set_light_backlight_write(t, o) ==
  /\ pc[t] = "backlight_write"
  /\ write_file(t, "write_int", LCD_FILE,
                FormatInt(rgb_to_brightness(call[t].state)), o)
  /\ res' = [res EXCEPT ![t] = write_result(o)]
  /\ pc' = [pc EXCEPT ![t] = "backlight_unlock"]
  /\ UNCHANGED << g_lock, store, call, frame, ncalls >>

(* lines 229-230 *)
set_light_backlight_unlock(t) ==
  /\ pc[t] = "backlight_unlock"
  /\ mutex_unlock(t)
  /\ pc' = [pc EXCEPT ![t] = "done"]
  /\ UNCHANGED << store, warned, dev, call, frame, res, ncalls, wlog,
                  open_failed, open_logged >>

(* -------------------------------------------------------------- keyboard *)
(* line 243 *)
set_light_keyboard_lock(t) == section_lock(t, "keyboard_lock", "keyboard_write")

(* line 244: res = write_int(KEYBOARD_FILE, key_led_control) *)
set_light_keyboard_write(t, o) ==
  /\ pc[t] = "keyboard_write"
  /\ write_file(t, "write_int", KEYBOARD_FILE,
                FormatInt(key_led_control(call[t].state)), o)
  /\ res' = [res EXCEPT ![t] = write_result(o)]
  /\ pc' = [pc EXCEPT ![t] = "keyboard_unlock"]
  /\ UNCHANGED << g_lock, store, call, frame, ncalls >>

(* Where set_light_buttons goes on after set_light_keyboard has returned   *)
(* (lines 254-260): its value is dropped.                                  *)
buttons_after_keyboard(state) ==
  IF rgb_to_brightness(state) > 0 THEN "voltage_lock" ELSE "buttons_lock"

set_light_keyboard_unlock_held_for_buttons(t) ==
  /\ pc[t] = "keyboard_unlock"
  /\ IF call[t].handler = "buttons" THEN g_lock' = g_lock ELSE mutex_unlock(t)
  /\ pc' = [pc EXCEPT ![t] = IF call[t].handler = "buttons"
                             THEN buttons_after_keyboard(call[t].state)
                             ELSE "done"]
  /\ UNCHANGED << store, warned, dev, call, frame, res, ncalls, wlog,
                  open_failed, open_logged >>

(* lines 245-247: unlock and return, to the dispatcher or to               *)
(* set_light_buttons.                                                      *)
set_light_keyboard_unlock(t) ==
  /\ pc[t] = "keyboard_unlock"
  /\ mutex_unlock(t)
  /\ pc' = [pc EXCEPT ![t] = IF call[t].handler = "buttons"
                             THEN buttons_after_keyboard(call[t].state)
                             ELSE "done"]
  /\ UNCHANGED << store, warned, dev, call, frame, res, ncalls, wlog,
                  open_failed, open_logged >>

(* --------------------------------------------------------------- buttons *)
(* line 261 *)
set_light_buttons_voltage_lock(t) == section_lock(t, "voltage_lock", "voltage_write")

(* line 262: write_int(BRIGHTNESS_FILE, brightness), value dropped *)
set_light_buttons_voltage_write(t, o) ==
  /\ pc[t] = "voltage_write"
  /\ write_file(t, "write_int", BRIGHTNESS_FILE,
                FormatInt(rgb_to_brightness(call[t].state)), o)
  /\ pc' = [pc EXCEPT ![t] = "voltage_unlock"]
  /\ UNCHANGED << g_lock, store, call, frame, res, ncalls >>

(* line 263 *)
set_light_buttons_voltage_unlock(t) ==
  /\ pc[t] = "voltage_unlock"
  /\ mutex_unlock(t)
  /\ pc' = [pc EXCEPT ![t] = "buttons_lock"]
  /\ UNCHANGED << store, warned, dev, call, frame, res, ncalls, wlog,
                  open_failed, open_logged >>

(* line 269 *)
set_light_buttons_lock(t) == section_lock(t, "buttons_lock", "buttons_write")

set_light_buttons_write_first_error(t, o) ==
  /\ pc[t] = "buttons_write"
  /\ write_file(t, "write_int", BUTTONS_FILE,
                FormatInt(touch_led_control(call[t].state)), o)
  /\ res' = [res EXCEPT ![t] = IF res[t] < 0 THEN res[t] ELSE write_result(o)]
  /\ pc' = [pc EXCEPT ![t] = "buttons_unlock"]
  /\ UNCHANGED << g_lock, store, call, frame, ncalls >>

(* line 270: res = write_int(BUTTONS_FILE, touch_led_control) *)
set_light_buttons_write(t, o) ==
  /\ pc[t] = "buttons_write"
  /\ write_file(t, "write_int", BUTTONS_FILE,
                FormatInt(touch_led_control(call[t].state)), o)
  /\ res' = [res EXCEPT ![t] = write_result(o)]
  /\ pc' = [pc EXCEPT ![t] = "buttons_unlock"]
  /\ UNCHANGED << g_lock, store, call, frame, ncalls >>

(* lines 271-273 *)
set_light_buttons_unlock(t) ==
  /\ pc[t] = "buttons_unlock"
  /\ mutex_unlock(t)
  /\ pc' = [pc EXCEPT ![t] = "done"]
  /\ UNCHANGED << store, warned, dev, call, frame, res, ncalls, wlog,
                  open_failed, open_logged >>

(* The handler returns res to its caller.  The recording of the writes is  *)
(* cut when no call is left in progress: it holds the writes of the calls  *)
(* in progress and of those that overlapped them.                          *)
Return(t) ==
  /\ pc[t] = "done"
  /\ pc' = [pc EXCEPT ![t] = "idle"]
  /\ call' = [call EXCEPT ![t] = NoCall]
  /\ res' = [res EXCEPT ![t] = 0]
  /\ wlog' = IF \A u \in Threads \ {t} : pc[u] = "idle" THEN << >> ELSE wlog
  /\ UNCHANGED << g_lock, store, warned, dev, frame, ncalls,
                  open_failed, open_logged >>

(* No step of a handler applies a translator on its own.                   *)
no_translator == UNCHANGED << arg, out >>

(* The steps of thread t, its calls passing light states of `states` and   *)
(* colours of `colors`.                                                    *)
Step(t, states, colors) ==
  \/ Call(t, colors) /\ no_translator
  \/ \E state \in states : set_light_battery_lock(t, state) /\ no_translator
  \/ \E state \in states : set_light_notifications_lock(t, state) /\ no_translator
  \/ \E o \in Outcomes : set_led_write(t, o) /\ no_translator
  \/ set_light_leds_unlock(t) /\ no_translator
  \/ set_light_backlight_lock(t) /\ no_translator
  \/ \E o \in Outcomes : set_light_backlight_write(t, o) /\ no_translator
  \/ set_light_backlight_unlock(t) /\ no_translator
  \/ set_light_keyboard_lock(t) /\ no_translator
  \/ \E o \in Outcomes : set_light_keyboard_write(t, o) /\ no_translator
  \/ set_light_keyboard_unlock(t) /\ no_translator
  \/ set_light_buttons_voltage_lock(t) /\ no_translator
  \/ \E o \in Outcomes : set_light_buttons_voltage_write(t, o) /\ no_translator
  \/ set_light_buttons_voltage_unlock(t) /\ no_translator
  \/ set_light_buttons_lock(t) /\ no_translator
  \/ \E o \in Outcomes : set_light_buttons_write(t, o) /\ no_translator
  \/ set_light_buttons_unlock(t) /\ no_translator
  \/ Return(t) /\ no_translator

(* Two threads call concurrently.                                          *)
Next == \E t \in Threads : Step(t, SomeStates, SomeColors)
Spec == Init /\ [][Next]_vars

(* One thread calls, with every light state.                               *)
NextSeq == Step(1, LightStates, Colors)
SpecSeq == Init /\ [][NextSeq]_vars

(* Two threads call concurrently and each is scheduled fairly: a thread    *)
(* inside a handler that can take a step (a device write returns, a free   *)
(* mutex is acquired) eventually takes one.                                *)
FairStates == {s \in SomeStates : s.color # 0 /\ s.flashMode = LIGHT_FLASH_NONE}
FairColors == SomeColors \ {0}
Proceed(t) == pc[t] # "idle" /\ Step(t, FairStates, FairColors)
NextFair == \E t \in Threads : Step(t, FairStates, FairColors)
SpecFair == Init /\ [][NextFair]_vars /\ \A t \in Threads : WF_vars(Proceed(t))

(* ------------------------------------------------------------ open_lights *)
LightIds == {"backlight", "keyboard", "buttons", "battery", "notifications"}
Names == LightIds \cup {"other"}

(* open_lights(module, name, device) by a thread that is in no handler:    *)
(* -EINVAL for an unknown name, else pthread_mutex_init(&g_lock, NULL).    *)
(* Initialising a mutex that is held is undefined: the mutex comes out     *)
(* unlocked, or is left as it was.                                         *)
open_lights(t, name) ==
  /\ pc[t] = "idle"
  /\ IF name \in LightIds THEN g_lock' \in {0, g_lock} ELSE g_lock' = g_lock
  /\ UNCHANGED << store, warned, dev, pc, call, frame, res, ncalls, wlog,
                  open_failed, open_logged >>

(* The service opening lights while battery and notifications calls run,   *)
(* the calls passing steady colours.                                       *)
SteadyStates == {s \in SomeStates : s.flashMode = LIGHT_FLASH_NONE}
StepOpen(t) ==
  \/ \E name \in Names : open_lights(t, name) /\ no_translator
  \/ \E handler \in {"battery", "notifications"} :
        CallHandler(t, handler, NoState_t) /\ no_translator
  \/ \E state \in SteadyStates : set_light_battery_lock(t, state) /\ no_translator
  \/ \E state \in SteadyStates : set_light_notifications_lock(t, state) /\ no_translator
  \/ \E o \in Outcomes : set_led_write(t, o) /\ no_translator
  \/ set_light_leds_unlock(t) /\ no_translator
  \/ Return(t) /\ no_translator

NextOpen == \E t \in Threads : StepOpen(t)
SpecOpen == Init /\ [][NextOpen]_vars

(* ------------------------------------------- the two translators, alone  *)
(* Colours by their bytes: top (below 128, the widest the checker's        *)
(* integers take), red, green, blue.                                       *)
TopBytes == {0, 1, 127}
ByteValues == {0, 1, 3, 4, 128, 255}
PackColor(a, r, g, b) == ((a * 256 + r) * 256 + g) * 256 + b
AllColors == {PackColor(a, r, g, b) : a \in TopBytes, r \in ByteValues,
                                      g \in ByteValues, b \in ByteValues}
(* flashMode is an int: 3 is a value the switch has no case for.           *)
AllModes == FlashModes \cup {3}
AllStates == [color : AllColors, flashMode : AllModes,
              flashOnMS : 0..MaxOnMS, flashOffMS : 0..MaxOffMS]

InitPure == InitLights /\ arg \in AllStates /\ out = NoRet

lights_unchanged ==
  UNCHANGED << g_lock, store, warned, dev, pc, call, frame, res, ncalls,
               wlog, open_failed, open_logged >>

(* comp_led_states(&red, &blue, arg) *)
apply_comp_led_states ==
  /\ out.fn = "none"
  /\ out' = [out EXCEPT !.fn = "comp_led_states",
                        !.red = comp_led_states(arg)[1],
                        !.blue = comp_led_states(arg)[2]]
  /\ UNCHANGED arg
  /\ lights_unchanged

(* rgb_to_brightness(arg) *)
apply_rgb_to_brightness ==
  /\ out.fn = "none"
  /\ out' = [out EXCEPT !.fn = "rgb_to_brightness",
                        !.brightness = rgb_to_brightness(arg)]
  /\ UNCHANGED arg
  /\ lights_unchanged

NextPure == apply_comp_led_states \/ apply_rgb_to_brightness
SpecPure == InitPure /\ [][NextPure]_vars

(* ------------------------------------------------------- the recording   *)
Failed(w) == w.kind # "ok"
Code(w) == IF Failed(w) THEN -w.errno ELSE 0
WritesOn(dir) == SelectSeq(wlog, LAMBDA w : DirOf(w.path) = dir)
WritesOf(id) == SelectSeq(wlog, LAMBDA w : w.call = id)
LedWritesOf(id, dir) ==
  SelectSeq(wlog, LAMBDA w : w.call = id /\ DirOf(w.path) = dir)

(* No write of one call lies between two writes of another call.           *)
Contiguous(l) ==
  \A i, k \in 1..Len(l) :
    (i < k /\ l[i].call = l[k].call) => l[i + 1].call = l[i].call

InCall(t) == pc[t] \notin {"idle", "done"}

(* C1: on each physical LED, the writes of concurrent set_light_battery    *)
(* and set_light_notifications calls are never interleaved: the writes of  *)
(* one call on the LED's controls are consecutive in the recording.        *)
C1_LedWritesNotInterleaved ==
  \A dir \in LedDirs : Contiguous(WritesOn(dir))

(* A battery call and a notifications call of two threads, in progress at  *)
(* the same time, have both written to the red LED.                        *)
C1_Witness ==
  \E i, k \in 1..Len(WritesOn(RED_LED_DIR)) :
    LET l == WritesOn(RED_LED_DIR)
    IN /\ l[i].handler = "battery" /\ l[k].handler = "notifications"
       /\ l[i].thread # l[k].thread

(* C2: the device writes of one handler call are never separated by a      *)
(* device write of another call (each call holds the lock from its first   *)
(* to its last write).                                                     *)
C2_CallWritesNotSeparated == Contiguous(wlog)

(* C3: a thread that has returned from a handler, with success or with an  *)
(* error code, does not hold the lock; with no call in progress the lock   *)
(* is free.                                                                *)
C3_LockReleasedOnReturn ==
  /\ \A t \in Threads : ~InCall(t) => g_lock # t
  /\ (\A t \in Threads : ~InCall(t)) => g_lock = 0

(* A battery call has returned the error code of a failed LED write.       *)
C3_Witness ==
  \E t \in Threads :
    /\ pc[t] = "done" /\ call[t].handler = "battery" /\ res[t] < 0
    /\ \E i \in 1..Len(wlog) : wlog[i].call = call[t].id /\ Failed(wlog[i])

(* ------------------------------------------------------------- set_led   *)
BatteryOf(dir) == IF dir = RED_LED_DIR THEN battery_red ELSE battery_blue
NotificationsOf(dir) ==
  IF dir = RED_LED_DIR THEN notifications_red ELSE notifications_blue
AllOk(l) == \A i \in 1..Len(l) : ~Failed(l[i])
Blinks(r) == r.delay_on > 0 /\ r.delay_off > 0

(* The texts a sequence of writes gave each control of the LED in dir.     *)
Shown(dir, l) ==
  [f \in LedFiles |->
     {l[i].text : i \in {j \in 1..Len(l) : l[j].path = DfPath(dir, f)}}]
(* What an LED shows for a record that has won, and with no winner.        *)
Show(r) ==
  IF Blinks(r)
  THEN [f \in LedFiles |->
          CASE f = "trigger" -> {"notification"}
            [] f = "brightness" -> {"255"}
            [] f = "blink_count" -> {"1"}
            [] f = "delay_on" -> {FormatInt(r.delay_on)}
            [] f = "delay_off" -> {FormatInt(r.delay_off)}]
  ELSE [f \in LedFiles |->
          CASE f = "trigger" -> {"none"}
            [] f = "brightness" -> {"255"}
            [] OTHER -> {}]
ShowOff ==
  [f \in LedFiles |->
     CASE f = "trigger" -> {"none"} [] f = "brightness" -> {"0"} [] OTHER -> {}]

(* The runs of set_led that have come to their end with no write failing,  *)
(* seen before the lock is released: <<thread, dir, writes>>.              *)
CompleteRuns ==
  {x \in {<<t, dir, LedWritesOf(call[t].id, dir)>> :
            t \in {u \in Threads : pc[u] = "leds_unlock"}, dir \in LedDirs} :
     x[3] # << >> /\ AllOk(x[3])}

(* C4: set_led realises the notifications record whenever it is enabled,   *)
(* the battery record when only that is enabled, and no source when both   *)
(* are disabled; the delays written are those of the record selected.      *)
C4_NotificationsWinOverBattery ==
  \A x \in CompleteRuns :
    LET b == BatteryOf(x[2])
        n == NotificationsOf(x[2])
    IN /\ n.enabled # 0 => Shown(x[2], x[3]) = Show(n)
       /\ (n.enabled = 0 /\ b.enabled # 0) => Shown(x[2], x[3]) = Show(b)
       /\ (n.enabled = 0 /\ b.enabled = 0) => Shown(x[2], x[3]) = ShowOff

(* Both records of the red LED are enabled, the battery blinks and the     *)
(* notifications are solid, and set_led has run.                           *)
C4_Witness ==
  \E x \in CompleteRuns :
    /\ x[2] = RED_LED_DIR
    /\ battery_red.enabled = 1 /\ Blinks(battery_red)
    /\ notifications_red.enabled = 1 /\ ~Blinks(notifications_red)

PathText(l) == [i \in 1..Len(l) |-> << l[i].path, l[i].text >>]
SeqBlink(dir, on, off) ==
  << << DfPath(dir, "trigger"), "notification" >>,
     << DfPath(dir, "brightness"), "255" >>,
     << DfPath(dir, "blink_count"), "1" >>,
     << DfPath(dir, "delay_on"), FormatInt(on) >>,
     << DfPath(dir, "delay_off"), FormatInt(off) >> >>
SeqSolid(dir) ==
  << << DfPath(dir, "trigger"), "none" >>, << DfPath(dir, "brightness"), "255" >> >>
SeqOff(dir) ==
  << << DfPath(dir, "trigger"), "none" >>, << DfPath(dir, "brightness"), "0" >> >>

(* C5: when every write succeeds set_led emits, in this order, trigger=    *)
(* notification, brightness=255, blink_count=1, delay_on, delay_off for a  *)
(* winner with both delays positive; trigger=none, brightness=255 for any  *)
(* other winner; trigger=none, brightness=0 with no source enabled; and    *)
(* blink_count is never written anything but 1.                            *)
C5_ThreeWriteSequences ==
  /\ \A x \in CompleteRuns :
       LET b == BatteryOf(x[2])
           n == NotificationsOf(x[2])
           w == IF n.enabled # 0 THEN n ELSE b
       IN PathText(x[3]) =
            IF n.enabled = 0 /\ b.enabled = 0 THEN SeqOff(x[2])
            ELSE IF w.delay_on > 0 /\ w.delay_off > 0
                 THEN SeqBlink(x[2], w.delay_on, w.delay_off)
                 ELSE SeqSolid(x[2])
  /\ \A i \in 1..Len(wlog) :
       (\E dir \in LedDirs : wlog[i].path = DfPath(dir, "blink_count"))
         => wlog[i].text = "1"

(* set_led has emitted the five writes of a blinking LED.                  *)
C5_Witness ==
  \E x \in CompleteRuns :
    /\ Len(x[3]) = 5
    /\ x[3][4].text # x[3][5].text

Records == {battery_red, battery_blue, notifications_red, notifications_blue}
BothZeroOrBothPositive(r) ==
  \/ r.delay_on = 0 /\ r.delay_off = 0
  \/ r.delay_on > 0 /\ r.delay_off > 0

(* C6 as stated: each stored record has delay_on and delay_off both zero   *)
(* or both positive, whatever non-negative flash times the calls passed.   *)
C6_DelaysNeverMixed == \A r \in Records : BothZeroOrBothPositive(r)

MixedTimed(st) ==
  /\ st.flashMode = LIGHT_FLASH_TIMED
  /\ (st.flashOnMS = 0) # (st.flashOffMS = 0)
StoredFor(st, r) ==
  IF MixedTimed(st)
  THEN r.delay_on = st.flashOnMS /\ r.delay_off = st.flashOffMS
  ELSE BothZeroOrBothPositive(r)

(* C6 amended: a call passing non-negative flash times leaves both records *)
(* of its source with delays both zero or both positive, unless its mode   *)
(* is TIMED and exactly one of flashOnMS, flashOffMS is zero: then both    *)
(* records hold exactly that mixed pair.  No other step changes a record.  *)
C6_DelaysMixedOnlyAsPassed ==
  [][ /\ \A t \in Threads, st \in LightStates :
           set_light_battery_lock(t, st)
             => StoredFor(st, battery_red') /\ StoredFor(st, battery_blue')
      /\ \A t \in Threads, st \in LightStates :
           set_light_notifications_lock(t, st)
             => StoredFor(st, notifications_red')
                  /\ StoredFor(st, notifications_blue')
      /\ (\A t \in Threads : pc[t] \notin {"battery_lock", "notifications_lock"})
           => UNCHANGED store ]_vars

(* A battery call with a mixed pair has stored it.                         *)
C6_Witness ==
  /\ battery_red.delay_on > 0 /\ battery_red.delay_off = 0
  /\ battery_blue = [battery_red EXCEPT !.enabled = battery_blue.enabled]
  /\ \E t \in Threads : pc[t] = "leds_unlock" /\ call[t].handler = "battery"

(* ------------------------------------------------------ error handling   *)
(* The battery and notifications calls that have run set_led, before and   *)
(* after the unlock.                                                       *)
LedCallsOver ==
  {t \in Threads : /\ pc[t] \in {"leds_unlock", "done"}
                   /\ call[t].handler \in {"battery", "notifications"}}
LastOf(l) == l[Len(l)]

(* C7: when the arbitration of the red LED fails the call writes nothing   *)
(* to the blue LED and returns that failure code; when it succeeds the     *)
(* arbitration of the blue LED runs and the call returns its result.       *)
C7_RedFailureSkipsBlue ==
  \A t \in LedCallsOver :
    LET red == LedWritesOf(call[t].id, RED_LED_DIR)
        blue == LedWritesOf(call[t].id, BLUE_LED_DIR)
    IN /\ red # << >>
       /\ Failed(LastOf(red)) => blue = << >> /\ res[t] = Code(LastOf(red))
       /\ ~Failed(LastOf(red)) => blue # << >> /\ res[t] = Code(LastOf(blue))

(* The first LED's arbitration has failed after its first write.           *)
C7_Witness ==
  \E t \in LedCallsOver :
    LET red == LedWritesOf(call[t].id, RED_LED_DIR)
    IN Len(red) > 1 /\ Failed(LastOf(red)) /\ res[t] < 0

(* C8: in one run of set_led a failing write is the last one issued, its   *)
(* code is what set_led returns, and the controls written before it hold   *)
(* what was written to them.                                               *)
C8_FirstFailureAborts ==
  \A t \in LedCallsOver : \A dir \in LedDirs :
    LET l == LedWritesOf(call[t].id, dir)
    IN /\ \A i \in 1..Len(l) : Failed(l[i]) => i = Len(l) /\ res[t] = Code(l[i])
       /\ pc[t] = "leds_unlock" =>
            \A i \in 1..Len(l) : ~Failed(l[i]) => dev[l[i].path] = l[i].text

(* The third write of a blinking LED has failed.                           *)
C8_Witness ==
  \E t \in LedCallsOver : \E dir \in LedDirs :
    LET l == LedWritesOf(call[t].id, dir)
    IN Len(l) = 3 /\ Failed(l[3]) /\ pc[t] = "leds_unlock"

(* C9: a buttons call always writes the buttons control, last, and returns *)
(* the result of that write whatever became of its keyboard and voltage    *)
(* writes.                                                                 *)
C9_ButtonsReturnsOwnWrite ==
  \A t \in Threads :
    (pc[t] = "done" /\ call[t].handler = "buttons") =>
      LET l == WritesOf(call[t].id)
      IN /\ l # << >>
         /\ LastOf(l).path = BUTTONS_FILE
         /\ res[t] = Code(LastOf(l))
         /\ l[1].path = KEYBOARD_FILE

(* The keyboard write of a buttons call failed, its own write did not.     *)
C9_Witness ==
  \E t \in Threads :
    /\ pc[t] = "done" /\ call[t].handler = "buttons" /\ res[t] = 0
    /\ LET l == WritesOf(call[t].id)
       IN Len(l) = 3 /\ Failed(l[1]) /\ Failed(l[2]) /\ ~Failed(l[3])

(* C10: every path whose open has failed has been logged exactly once.     *)
C10_EachFailedPathLoggedOnce ==
  \A p \in Paths : p \in open_failed => open_logged[p] = 1

(* ------------------------------------------------------------- colours   *)
RedByte(c) == (c \div 65536) % 256
GreenByte(c) == (c \div 256) % 256
BlueByte(c) == c % 256
Lit(c) == RedByte(c) + GreenByte(c) + BlueByte(c) > 0
Luma(c) == (77 * RedByte(c) + 150 * GreenByte(c) + 29 * BlueByte(c)) \div 256

(* C11: a buttons call with colour C writes, in this order, the keyboard   *)
(* control with 1 if a low byte of C is non-zero and 2 otherwise, the      *)
(* touch-LED voltage with the luma of C if and only if that is positive,   *)
(* and the buttons control with 1 if a low byte is non-zero, 0 otherwise.  *)
C11_ButtonsWrites ==
  \A t \in Threads :
    (pc[t] = "done" /\ call[t].handler = "buttons") =>
      LET c == call[t].state.color
      IN PathText(WritesOf(call[t].id)) =
           << << KEYBOARD_FILE, IF Lit(c) THEN "1\n" ELSE "2\n" >> >>
           \o (IF Luma(c) > 0
               THEN << << BRIGHTNESS_FILE, FormatInt(Luma(c)) >> >>
               ELSE << >>)
           \o << << BUTTONS_FILE, IF Lit(c) THEN "1\n" ELSE "0\n" >> >>

(* Buttons calls have returned: one that wrote the voltage between the     *)
(* other two controls, or one with black that switched the keyboard off.   *)
C11_Witness ==
  \E t \in Threads :
    /\ pc[t] = "done" /\ call[t].handler = "buttons"
    /\ call[t].state.color = 0
    /\ ncalls = 2
    /\ dev[BRIGHTNESS_FILE] = "105\n"
    /\ dev[KEYBOARD_FILE] = "2\n"

(* C12: comp_led_states gives the red and the blue record the same delay   *)
(* pair: (flashOnMS, flashOffMS) when flashMode is TIMED, (0, 0) for NONE  *)
(* and for every other mode, whatever the colour.                          *)
C12_DelayPairByMode ==
  out.fn = "comp_led_states" =>
    LET pair == IF arg.flashMode = LIGHT_FLASH_TIMED
                THEN << arg.flashOnMS, arg.flashOffMS >> ELSE << 0, 0 >>
    IN /\ << out.red.delay_on, out.red.delay_off >> = pair
       /\ << out.blue.delay_on, out.blue.delay_off >> = pair

C12_Witness ==
  /\ out.fn = "comp_led_states"
  /\ arg.flashMode = 3 /\ arg.flashOnMS = 2 /\ arg.flashOffMS = 1
  /\ RedByte(arg.color) = 255 /\ BlueByte(arg.color) = 0
  /\ out.red.delay_on = 0 /\ out.blue.delay_off = 0

(* C13: comp_led_states enables red exactly when the red byte of the       *)
(* colour is non-zero and blue exactly when the blue byte is non-zero; the *)
(* green byte and the top byte have no part in it, so pure green leaves    *)
(* both LEDs disabled.                                                     *)
C13_EnabledByOwnByte ==
  out.fn = "comp_led_states" =>
    /\ out.red.enabled = (IF RedByte(arg.color) # 0 THEN 1 ELSE 0)
    /\ out.blue.enabled = (IF BlueByte(arg.color) # 0 THEN 1 ELSE 0)

C13_Witness ==
  /\ out.fn = "comp_led_states"
  /\ arg.color = PackColor(127, 0, 255, 0)
  /\ out.red.enabled = 0 /\ out.blue.enabled = 0

(* C14: rgb_to_brightness returns (77*R + 150*G + 29*B) >> 8 of the red,   *)
(* green and blue bytes, ignores the top byte, stays within 0..255 and is  *)
(* 255 for 0xFFFFFF.                                                       *)
C14_Brightness ==
  out.fn = "rgb_to_brightness" =>
    /\ out.brightness = Luma(arg.color)
    /\ out.brightness \in 0..255
    /\ (arg.color % 16777216 = 16777215 => out.brightness = 255)

C14_Witness ==
  /\ out.fn = "rgb_to_brightness"
  /\ arg.color = PackColor(127, 255, 255, 255)
  /\ out.brightness = 255

(* ------------------------------------------------ the LEDs after a call  *)
(* The record an LED is to show: the notifications' when enabled, else the *)
(* battery's when enabled, else none (shown as a disabled record).         *)
Winner(dir) ==
  IF NotificationsOf(dir).enabled # 0 THEN NotificationsOf(dir)
  ELSE IF BatteryOf(dir).enabled # 0 THEN BatteryOf(dir)
  ELSE led_state(0, 0, 0)
(* The controls of the LED in dir hold what realises record w.             *)
Holds(dir, w) ==
  /\ dev[DfPath(dir, "trigger")] = (IF Blinks(w) THEN "notification" ELSE "none")
  /\ dev[DfPath(dir, "brightness")] = (IF w.enabled # 0 THEN "255" ELSE "0")
  /\ Blinks(w) => /\ dev[DfPath(dir, "delay_on")] = FormatInt(w.delay_on)
                  /\ dev[DfPath(dir, "delay_off")] = FormatInt(w.delay_off)

(* C15: when a battery or notifications call has returned success, each    *)
(* LED holds the realisation of the record that wins among the stored      *)
(* battery and notifications records of that LED (trigger, brightness,     *)
(* and the delays when the winner blinks), whether or not earlier calls    *)
(* failed part-way.                                                        *)
C15_LedsHoldArbitration ==
  \A t \in Threads :
    (/\ pc[t] = "done"
     /\ call[t].handler \in {"battery", "notifications"}
     /\ res[t] = 0)
      => \A dir \in LedDirs : Holds(dir, Winner(dir))

(* The battery call failed after storing a blinking red record; the        *)
(* notifications call that followed disabled red and succeeded: red shows  *)
(* the battery's blink.                                                    *)
C15_Witness ==
  \E t \in Threads :
    /\ pc[t] = "done" /\ call[t].handler = "notifications" /\ res[t] = 0
    /\ call[t].id = 2
    /\ open_failed # {}
    /\ notifications_red.enabled = 0 /\ notifications_blue.enabled = 1
    /\ battery_red.enabled = 1 /\ Blinks(battery_red)
    /\ dev[DfPath(RED_LED_DIR, "trigger")] = "notification"
    /\ dev[DfPath(RED_LED_DIR, "delay_on")] = FormatInt(battery_red.delay_on)

(* ------------------------------------------------------- frame of a call *)
(* Thread t takes the step, and the handler whose call the step belongs to. *)
Acts(t) == pc'[t] # pc[t] \/ frame'[t] # frame[t]
HandlerOfStep(t) == IF pc[t] = "idle" THEN call'[t].handler ELSE call[t].handler
NoLedWrite ==
  /\ \A p \in Paths : DirOf(p) \in LedDirs => dev'[p] = dev[p]
  /\ \A i \in (Len(wlog) + 1)..Len(wlog') : DirOf(wlog'[i].path) \notin LedDirs

(* C16: every step of a battery call leaves the two notifications records  *)
(* unchanged, every step of a notifications call leaves the two battery    *)
(* records unchanged, and every step of a backlight, keyboard or buttons   *)
(* call leaves all four records unchanged and writes no file of either     *)
(* LED directory.                                                          *)
C16_CallsKeepToTheirRecords ==
  [][ \A t \in Threads :
        Acts(t) =>
          /\ HandlerOfStep(t) = "battery"
               => UNCHANGED << notifications_red, notifications_blue >>
          /\ HandlerOfStep(t) = "notifications"
               => UNCHANGED << battery_red, battery_blue >>
          /\ HandlerOfStep(t) \in {"backlight", "keyboard", "buttons"}
               => UNCHANGED store /\ NoLedWrite ]_vars

(* A battery call has run to its end while the notifications records held  *)
(* an enabled, blinking red.                                               *)
C16_Witness ==
  \E t \in Threads :
    /\ pc[t] = "done" /\ call[t].handler = "battery" /\ call[t].id = 2
    /\ notifications_red.enabled = 1 /\ Blinks(notifications_red)
    /\ notifications_blue.enabled = 0
    /\ battery_blue.enabled = 1 /\ battery_red.enabled = 0

(* ------------------------------------------------------------ the lock   *)
LockedSection ==
  {"set_led", "leds_unlock", "backlight_write", "backlight_unlock",
   "keyboard_write", "keyboard_unlock", "voltage_write", "voltage_unlock",
   "buttons_write", "buttons_unlock"}

(* C17: with open_lights running beside battery and notifications calls,   *)
(* at most one thread is ever between its lock and its unlock of g_lock.   *)
C17_OneThreadInLockedSection ==
  Cardinality({t \in Threads : pc[t] \in LockedSection}) <= 1

(* ------------------------------------------------- the store on failure  *)
(* The records a light state is to leave for the red and the blue LED.     *)
RecordFor(st, byte) ==
  IF st.flashMode = LIGHT_FLASH_TIMED
  THEN led_state(IF byte # 0 THEN 1 ELSE 0, st.flashOnMS, st.flashOffMS)
  ELSE led_state(IF byte # 0 THEN 1 ELSE 0, 0, 0)
NoWriteYet(t) == \A i \in 1..Len(wlog') : wlog'[i].call # call[t].id

(* C18: a battery (notifications) call stores the two records computed     *)
(* from its light state before it writes to any device file, and no later  *)
(* step of the call, failed write, unlock or return, changes a record: a   *)
(* call that returns an error leaves the new values in the store.          *)
C18_StoreKeptOnFailure ==
  [][ /\ \A t \in Threads :
           pc[t] = "battery_lock" =>
             \A st \in LightStates :
               set_light_battery_lock(t, st) =>
                 /\ battery_red' = RecordFor(st, RedByte(st.color))
                 /\ battery_blue' = RecordFor(st, BlueByte(st.color))
                 /\ NoWriteYet(t)
      /\ \A t \in Threads :
           pc[t] = "notifications_lock" =>
             \A st \in LightStates :
               set_light_notifications_lock(t, st) =>
                 /\ notifications_red' = RecordFor(st, RedByte(st.color))
                 /\ notifications_blue' = RecordFor(st, BlueByte(st.color))
                 /\ NoWriteYet(t)
      /\ (\E t \in Threads : pc[t] \in {"set_led", "leds_unlock", "done"})
           => UNCHANGED store ]_vars

(* The first call, a battery call, has returned an error and the store     *)
(* holds the blinking red it asked for.                                    *)
C18_Witness ==
  \E t \in Threads :
    /\ pc[t] = "done" /\ call[t].handler = "battery" /\ call[t].id = 1
    /\ res[t] < 0
    /\ battery_red.enabled = 1 /\ Blinks(battery_red)
    /\ battery_blue.enabled = 0
    /\ dev[DfPath(RED_LED_DIR, "trigger")] = ""

(* ------------------------------------------------------------- buttons   *)
(* C19: a buttons call that has written the flag 1 to the buttons control  *)
(* has also written a positive value to the touch-LED voltage control.     *)
C19_TouchEnabledHasVoltage ==
  \A t \in Threads :
    (pc[t] = "done" /\ call[t].handler = "buttons") =>
      LET l == PathText(WritesOf(call[t].id))
      IN (\E i \in 1..Len(l) : l[i] = << BUTTONS_FILE, "1\n" >>)
           => \E i \in 1..Len(l) :
                /\ l[i][1] = BRIGHTNESS_FILE
                /\ l[i][2] \notin {"0\n", ""}

(* ------------------------------------------------------------ progress   *)
AtLock ==
  {"battery_lock", "notifications_lock", "backlight_lock", "keyboard_lock",
   "voltage_lock", "buttons_lock"}

(* C20: with every device write returning and the threads scheduled        *)
(* fairly, no thread comes to acquire g_lock while it holds it, and every  *)
(* call a thread has made comes to its return: no thread waits forever.    *)
C20_EveryCallReturns ==
  /\ [](\A t \in Threads : pc[t] \in AtLock => g_lock # t)
  /\ \A t \in Threads : InCall(t) ~> (pc[t] = "done")

(* A buttons call is at the second of its three lock acquisitions while    *)
(* the other thread holds the lock inside set_led.                         *)
C20_Witness ==
  \E t, u \in Threads :
    /\ pc[t] = "voltage_lock" /\ call[t].handler = "buttons"
    /\ u # t /\ g_lock = u /\ pc[u] = "set_led"

============================================================================
